---- MODULE Spec2Model ----
(***************************************************************************)
(* arXivTeXplorer viewer: the source-archive ingestion engine of           *)
(* src/src/viewer/Viewer.tsx (fetchAndExtractTexSource, isTarArchive,      *)
(* extractTar, isTextFile, getMimeType) and the Viewer component's load    *)
(* effect.                                                                 *)
(*                                                                         *)
(* Byte buffers (Uint8Array) are sequences of 0..255, indexed from 1 here  *)
(* and from 0 in the code; Slice and At take the code's 0-based indices.   *)
(* Strings are sequences of code points.                                   *)
(***************************************************************************)
EXTENDS Integers, Sequences, FiniteSets, TLC

VARIABLES
    arxivId,    \* the ?id= parameter of the viewer page
    resp,       \* what the transport answers for https://arxiv.org/src/<id>
    fetch,      \* per call of fetchAndExtractTexSource: its locals and position
    viewer,     \* the Viewer component's React state
    tarPc,      \* extractTar: "idle" | "loop" | "returned"
    tarOffset,  \* extractTar: let offset
    tarFiles,   \* extractTar: const files
    tarOwner,   \* the fetch that called extractTar, 0 for a direct call
    tarTick,    \* extractTar: parity of the number of loop iterations run
    src,        \* how the input buffer of a direct extractTar call was built
    sortIn,     \* files.sort called on its own: the array as it was passed
    sortOut,    \* files.sort called on its own: the array as it is now
    sortRuns,   \* files.sort called on its own: the number of calls made
    ui,         \* the Viewer's view state: search panel, expanded folders, line
    page        \* the arXiv page the content script runs in

vars == <<arxivId, resp, fetch, viewer, tarPc, tarOffset, tarFiles, tarOwner, tarTick, src,
          sortIn, sortOut, sortRuns, ui, page>>

tarVars == <<tarPc, tarOffset, tarFiles, tarOwner, tarTick>>

sortVars == <<sortIn, sortOut, sortRuns>>

(***************************************************************************)
(* Bounds of the model.                                                    *)
(***************************************************************************)
\* most headers in a generated tar buffer
MaxEntries == 2
\* most chunks one fetch reads before the stream delivers the rest at once
MaxChunks == 2
\* most entries in an array that files.sort is called on directly
MaxSort == 3
\* most changes the arXiv page makes to its own document
MaxMutations == 3

(***************************************************************************)
(* Program constants.                                                      *)
(***************************************************************************)
\* the tar block size
BlockSize == 512
\* shortest buffer isTarArchive looks at
MinTarLength == 263

Min(a, b) == IF a < b THEN a ELSE b
Max(a, b) == IF a > b THEN a ELSE b
SetMin(S) == CHOOSE x \in S : \A y \in S : x <= y
SetMax(S) == CHOOSE x \in S : \A y \in S : x >= y

Zeros(n) == [i \in 1..n |-> 0]
Fill(n, b) == [i \in 1..n |-> b]
Pad(s, n) == s \o Zeros(n - Len(s))

(***************************************************************************)
(* JavaScript primitives the code uses.                                    *)
(***************************************************************************)
\* the value of an index past the end of a typed array
Undefined == -1

\* data[i]
At(data, i) == IF i >= 0 /\ i < Len(data) THEN data[i + 1] ELSE Undefined

\* a relative index of slice(): negative counts from the end, then clamp
RelIndex(i, n) == IF i < 0 THEN Max(n + i, 0) ELSE Min(i, n)

\* Uint8Array.prototype.slice(start, end)
Slice(data, start, end) ==
    LET n == Len(data)
        a == RelIndex(start, n)
        b == RelIndex(end, n)
    IN  IF a >= b THEN <<>> ELSE SubSeq(data, a + 1, b)

\* new TextDecoder() is built without {fatal: true}: decode never throws
TextDecoderThrows(bytes) == FALSE

\* new TextDecoder().decode(bytes), strFromU8(bytes): an ASCII byte is its
\* code point; a byte that starts no valid UTF-8 sequence becomes U+FFFD.
\* The byte alphabet of the model has 255 as its only byte above 127, so
\* no multi-byte sequence is ever valid.
TextDecode(bytes) == [i \in 1..Len(bytes) |-> IF bytes[i] < 128 THEN bytes[i] ELSE 65533]

\* .replace(/\0/g, '')
StripNul(s) == SelectSeq(s, LAMBDA c : c # 0)

WhiteSpace == {9, 10, 11, 12, 13, 32, 160, 65279}

\* String.prototype.trim()
Trim(s) ==
    LET keep == {i \in 1..Len(s) : s[i] \notin WhiteSpace}
    IN  IF keep = {} THEN <<>> ELSE SubSeq(s, SetMin(keep), SetMax(keep))

\* String.prototype.endsWith
EndsWith(s, suffix) ==
    /\ Len(s) >= Len(suffix)
    /\ SubSeq(s, Len(s) - Len(suffix) + 1, Len(s)) = suffix

\* String.prototype.includes
Includes(s, sub) ==
    \E i \in 1..(Len(s) - Len(sub) + 1) : SubSeq(s, i, i + Len(sub) - 1) = sub

\* String.prototype.toLowerCase on the ASCII range
ToLowerCase(s) == [i \in 1..Len(s) |-> IF s[i] >= 65 /\ s[i] <= 90 THEN s[i] + 32 ELSE s[i]]

RECURSIVE OctalValue(_, _)
OctalValue(digits, acc) ==
    IF digits = <<>> THEN acc
    ELSE OctalValue(Tail(digits), acc * 8 + (Head(digits) - 48))

\* a parseInt that gives NaN unless every character is an octal digit
ParseIntOctalWhole(s) ==
    LET t == Trim(s)
        bad == {i \in 1..Len(t) : t[i] < 48 \/ t[i] > 55}
    IN  IF t = <<>> \/ bad # {} THEN [nan |-> TRUE, val |-> 0]
        ELSE [nan |-> FALSE, val |-> OctalValue(t, 0)]

\* parseInt(s, 8): leading white space, an optional sign, then the longest
\* prefix of octal digits; NaN when that prefix is empty
ParseIntOctal(s) ==
    LET t == Trim(s)
        neg == t # <<>> /\ t[1] = 45
        body == IF t # <<>> /\ t[1] \in {43, 45} THEN Tail(t) ELSE t
        bad == {i \in 1..Len(body) : body[i] < 48 \/ body[i] > 55}
        n == IF bad = {} THEN Len(body) ELSE SetMin(bad) - 1
        v == OctalValue(SubSeq(body, 1, n), 0)
    IN  IF n = 0 THEN [nan |-> TRUE, val |-> 0]
        ELSE [nan |-> FALSE, val |-> IF neg THEN 0 - v ELSE v]

\* Math.ceil(size / 512), for any integer size
CeilBlocks(size) == 0 - ((0 - size) \div BlockSize)

(***************************************************************************)
(* File classification.                                                    *)
(***************************************************************************)
DotTex == <<46, 116, 101, 120>>

textExtensions ==
    { <<116, 101, 120>>, <<98, 105, 98>>, <<115, 116, 121>>, <<99, 108, 115>>,
      <<98, 115, 116>>, <<116, 120, 116>>, <<109, 100>>, <<99, 102, 103>>,
      <<100, 101, 102>>, <<102, 100>>, <<105, 110, 115>>, <<100, 116, 120>>,
      <<108, 116, 120>>, <<98, 98, 120>>, <<99, 98, 120>>, <<108, 98, 120>> }

\* filename.split('.').pop()?.toLowerCase()
Extension(filename) ==
    LET dots == {i \in 1..Len(filename) : filename[i] = 46}
        last == IF dots = {} THEN 0 ELSE SetMax(dots)
    IN  ToLowerCase(SubSeq(filename, last + 1, Len(filename)))

isTextFile(filename) ==
    LET ext == Extension(filename)
    IN  IF ext # <<>> THEN ext \in textExtensions ELSE FALSE

getMimeType(filename) ==
    LET ext == Extension(filename)
    IN  CASE ext = <<112, 110, 103>> -> "image/png"
          [] ext \in {<<106, 112, 103>>, <<106, 112, 101, 103>>} -> "image/jpeg"
          [] ext = <<103, 105, 102>> -> "image/gif"
          [] ext = <<115, 118, 103>> -> "image/svg+xml"
          [] ext = <<112, 100, 102>> -> "application/pdf"
          [] ext = <<101, 112, 115>> -> "application/postscript"
          [] OTHER -> "application/octet-stream"

(***************************************************************************)
(* FileEntry values.  A text entry has no binaryData and no mimeType       *)
(* property; a binary entry has both.                                      *)
(***************************************************************************)
TextEntry(name, content, isTeX) ==
    [name |-> name, content |-> content, isTeX |-> isTeX, isBinary |-> FALSE]

\* a binary entry built without its mimeType
BinaryEntryNoMime(name, bytes) ==
    [name |-> name, content |-> <<>>, isTeX |-> FALSE, isBinary |-> TRUE,
     binaryData |-> bytes]

BinaryEntry(name, bytes) ==
    [name |-> name, content |-> <<>>, isTeX |-> FALSE, isBinary |-> TRUE,
     binaryData |-> bytes, mimeType |-> getMimeType(name)]

\* the entry extractTar pushes for a regular file
TarFileEntry(name, contentBytes) ==
    IF isTextFile(name)
    THEN IF TextDecoderThrows(contentBytes)
         THEN BinaryEntry(name, contentBytes)
         ELSE TextEntry(name, TextDecode(contentBytes), EndsWith(name, DotTex))
    ELSE BinaryEntry(name, contentBytes)

(***************************************************************************)
(* isTarArchive and extractTar.                                            *)
(***************************************************************************)
Ustar == <<117, 115, 116, 97, 114>>

\* the signature check without the length guard
isTarArchiveNoLength(data) == TextDecode(Slice(data, 257, 262)) = Ustar

\* a 5-character string equals 'ustar' or starts with it
isTarArchive(data) ==
    IF Len(data) < MinTarLength THEN FALSE
    ELSE TextDecode(Slice(data, 257, 262)) = Ustar

\* the loop condition that admits a header in the last 512 bytes
TarLoopCondInclusive(data, offset) == offset <= Len(data) - BlockSize

\* while (offset < data.length - 512)
TarLoopCond(data, offset) == offset < Len(data) - BlockSize

TarHeaderName(data, offset) ==
    Trim(StripNul(TextDecode(Slice(data, offset, offset + 100))))

\* parseInt(sizeStr, 8) || 0: NaN and 0 both give 0, a negative value stays
TarHeaderSize(data, offset) ==
    LET sizeStr == Trim(StripNul(TextDecode(Slice(data, offset + 124, offset + 136))))
        parsed == ParseIntOctal(sizeStr)
    IN  IF parsed.nan \/ parsed.val = 0 THEN 0 ELSE parsed.val

TarTypeFlag(data, offset) == At(data, offset + 156)

\* the emit condition without the type flag test
TarEmitsAnyType(data, offset) == TarHeaderSize(data, offset) > 0

\* (typeFlag === 0 || typeFlag === 48) && size > 0
TarEmits(data, offset) ==
    /\ TarTypeFlag(data, offset) \in {0, 48}
    /\ TarHeaderSize(data, offset) > 0

\* the advance without rounding the content up to whole blocks
TarNextOffsetUnrounded(data, offset) ==
    (offset + BlockSize) + TarHeaderSize(data, offset)

\* the advance that passes the content of emitted entries only
TarNextOffsetEmittedOnly(data, offset) ==
    IF TarEmits(data, offset)
    THEN (offset + BlockSize) + CeilBlocks(TarHeaderSize(data, offset)) * BlockSize
    ELSE offset + BlockSize

\* offset = contentOffset + Math.ceil(size / 512) * 512
TarNextOffset(data, offset) ==
    (offset + BlockSize) + CeilBlocks(TarHeaderSize(data, offset)) * BlockSize

\* the loop without the break on an empty name
TarProcessesPastEmpty(data, offset) == TarLoopCond(data, offset)

\* the loop goes on to parse and process the header at offset
TarProcesses(data, offset) ==
    /\ TarLoopCond(data, offset)
    /\ TarHeaderName(data, offset) # <<>>

\* the files array after the header at offset was processed
TarPush(files, data, offset) ==
    IF TarEmits(data, offset)
    THEN Append(files,
                TarFileEntry(TarHeaderName(data, offset),
                             Slice(data, offset + BlockSize,
                                   offset + BlockSize + TarHeaderSize(data, offset))))
    ELSE files

(***************************************************************************)
(* Tar buffers to decode: a list of header descriptions, each encoded as   *)
(* a 512-byte header (name, size field, type flag, optional ustar magic)   *)
(* followed by the content padded with NUL to a multiple of 512; then      *)
(* trailer blocks of zeros; then cut bytes dropped from the end.           *)
(***************************************************************************)
RECURSIVE OctalDigits(_, _)
OctalDigits(n, width) ==
    IF width = 0 THEN <<>> ELSE Append(OctalDigits(n \div 8, width - 1), 48 + (n % 8))

\* the size field tar writes: 11 octal digits, NUL terminated
OctalField(n) == OctalDigits(n, 11)

EncodeHeader(h, magic) ==
    Pad(h.name, 100) \o Zeros(24) \o Pad(h.sizeField, 12) \o Zeros(20)
        \o <<h.type>> \o Zeros(100)
        \o (IF magic THEN Ustar \o <<0>> ELSE Zeros(6))
        \o Zeros(BlockSize - MinTarLength)

EncodeContent(content) == Pad(content, CeilBlocks(Len(content)) * BlockSize)

RECURSIVE EncodeBlocks(_, _)
EncodeBlocks(hs, magic) ==
    IF hs = <<>> THEN <<>>
    ELSE EncodeHeader(Head(hs), magic) \o EncodeContent(Head(hs).content)
             \o EncodeBlocks(Tail(hs), magic)

EncodeTar(s) ==
    LET whole == EncodeBlocks(s.entries, s.magic) \o Zeros(s.trailer * BlockSize)
    IN  SubSeq(whole, 1, Len(whole) - s.cut)

\* a header as tar writes it for a member of the given type and content
Member(name, type, content) ==
    [name |-> name, sizeField |-> OctalField(Len(content)), type |-> type,
     content |-> content]

Names == { <<97, 46, 116, 101, 120>>, <<98, 46, 98, 105, 98>>, <<102, 46, 112, 110, 103>> }

\* type flag and content of the members: regular files (0 and '0') that are
\* empty, short, not valid UTF-8, one block and more than one block long; a
\* directory ('5'); an extended header ('x') with content
MemberKinds ==
    { <<0, <<>>>>, <<0, <<104, 105>>>>, <<0, <<255>>>>, <<0, Fill(BlockSize, 120)>>,
      <<0, Fill(BlockSize + 1, 121)>>, <<48, <<104, 105>>>>, <<53, <<>>>>,
      <<120, <<104, 105>>>> }

Members == { Member(n, k[1], k[2]) : n \in Names, k \in MemberKinds }

MemberLists ==
    UNION { { s \in [1..n -> Members] :
                \A i, j \in 1..n : i # j => s[i].name # s[j].name } : n \in 0..MaxEntries }

\* archives as tar writes them, with and without the end-of-archive blocks
WellFormed ==
    { [kind |-> "wellformed", entries |-> s, trailer |-> t, cut |-> 0, magic |-> TRUE] :
        s \in MemberLists, t \in {0, 2} }

ATex == <<97, 46, 116, 101, 120>>
BBib == <<98, 46, 98, 105, 98>>
Hi == <<104, 105>>

BadSize(name, sizeField) ==
    [name |-> name, sizeField |-> sizeField, type |-> 0, content |-> <<>>]

\* buffers with irregular structure: a size field that is not octal ("zz"),
\* negative ("-1000", "-2000"), or larger than what follows ("7777"), and
\* archives that end in the middle of a block or of a header
Malformed ==
    { [kind |-> "nonoctal", entries |-> <<BadSize(BBib, <<122, 122>>), Member(ATex, 0, Hi)>>,
       trailer |-> 2, cut |-> 0, magic |-> TRUE],
      [kind |-> "negative", entries |-> <<BadSize(BBib, <<45, 49, 48, 48, 48>>), Member(ATex, 0, Hi)>>,
       trailer |-> 2, cut |-> 0, magic |-> TRUE],
      [kind |-> "negative", entries |-> <<BadSize(BBib, <<45, 50, 48, 48, 48>>)>>,
       trailer |-> 1, cut |-> 0, magic |-> TRUE],
      [kind |-> "negative", entries |-> <<BadSize(BBib, <<45, 55>>), Member(ATex, 0, Hi)>>,
       trailer |-> 2, cut |-> 0, magic |-> TRUE],
      [kind |-> "oversize", entries |-> <<[BadSize(ATex, <<55, 55, 55, 55>>) EXCEPT !.content = Hi]>>,
       trailer |-> 0, cut |-> 0, magic |-> TRUE],
      [kind |-> "truncated", entries |-> <<Member(ATex, 0, Fill(BlockSize + 1, 121))>>,
       trailer |-> 0, cut |-> 600, magic |-> TRUE],
      [kind |-> "truncated", entries |-> <<Member(ATex, 0, Hi), Member(BBib, 0, Hi)>>,
       trailer |-> 0, cut |-> 700, magic |-> TRUE],
      [kind |-> "truncated", entries |-> <<Member(ATex, 0, Hi)>>,
       trailer |-> 0, cut |-> 900, magic |-> TRUE] }

\* a size field that starts with an octal digit and goes on with another
\* character ("2z", "19"), on a header followed by its content and by a.tex
OctalPrefix ==
    { [kind |-> "nonoctal",
       entries |-> <<[name |-> BBib, sizeField |-> f, type |-> 0, content |-> Hi],
                     Member(ATex, 0, Hi)>>,
       trailer |-> 2, cut |-> 0, magic |-> TRUE] : f \in { <<50, 122>>, <<49, 57>> } }

\* archives with a header whose name field is empty (NUL only) or blank
\* (two spaces) between a.tex and b.bib
Gapped ==
    { [kind |-> "gap",
       entries |-> <<Member(ATex, 0, Hi), Member(n, 0, <<>>), Member(BBib, 0, Hi)>>,
       trailer |-> 2, cut |-> 0, magic |-> TRUE] : n \in { <<>>, <<32, 32>> } }

\* a regular file whose name begins with a space (" c.md")
OddNames ==
    { [kind |-> "wellformed", entries |-> <<Member(<<32, 99, 46, 109, 100>>, 0, Hi)>>,
       trailer |-> t, cut |-> 0, magic |-> TRUE] : t \in {0, 2} }

\* a regular file whose extension is in upper case ("A.TEX"), alone and
\* after a.tex
UpperNames ==
    { [kind |-> "wellformed", entries |-> <<Member(<<65, 46, 84, 69, 88>>, 0, Hi)>>,
       trailer |-> 2, cut |-> 0, magic |-> TRUE],
      [kind |-> "wellformed",
       entries |-> <<Member(ATex, 0, Hi), Member(<<65, 46, 84, 69, 88>>, 0, <<255>>)>>,
       trailer |-> 2, cut |-> 0, magic |-> TRUE] }

TarSources == WellFormed \cup OddNames \cup UpperNames \cup Malformed \cup OctalPrefix \cup Gapped

\* no buffer was generated: the data came from the transport
NoSource == [kind |-> "none", entries |-> <<>>, trailer |-> 0, cut |-> 0, magic |-> FALSE]

(***************************************************************************)
(* Entry ordering: files.sort((a, b) => ...) with localeCompare.           *)
(***************************************************************************)
\* primary collation weight of a character: punctuation ('_' '-' '.' '/')
\* before digits before letters, letters without regard to case
PrimaryWeight(c) ==
    CASE c = 32 -> 1
      [] c = 95 -> 2
      [] c = 45 -> 3
      [] c = 46 -> 4
      [] c = 47 -> 5
      [] c >= 48 /\ c <= 57 -> 100 + (c - 48)
      [] c >= 97 /\ c <= 122 -> 200 + (c - 97)
      [] c >= 65 /\ c <= 90 -> 200 + (c - 65)
      [] OTHER -> 1000 + c

\* the tertiary weight with upper case first
CaseWeightUpperFirst(c) == IF c >= 65 /\ c <= 90 THEN 0 ELSE 1

\* tertiary weight: a lower-case letter before its upper-case form
CaseWeight(c) == IF c >= 65 /\ c <= 90 THEN 1 ELSE 0

\* lexicographic comparison of two sequences of weights: -1, 0 or 1
CompareKeys(a, b) ==
    LET n == Min(Len(a), Len(b))
        diff == {i \in 1..n : a[i] # b[i]}
    IN  IF diff # {}
        THEN (IF a[SetMin(diff)] < b[SetMin(diff)] THEN -1 ELSE 1)
        ELSE IF Len(a) < Len(b) THEN -1
        ELSE IF Len(a) > Len(b) THEN 1
        ELSE 0

PrimaryKey(s) == [i \in 1..Len(s) |-> PrimaryWeight(s[i])]
CaseKey(s) == [i \in 1..Len(s) |-> CaseWeight(s[i])]

\* a.localeCompare(b) in the default (root) collation
localeCompare(a, b) ==
    LET primary == CompareKeys(PrimaryKey(a), PrimaryKey(b))
    IN  IF primary # 0 THEN primary ELSE CompareKeys(CaseKey(a), CaseKey(b))

\* the comparator without its first two lines
CompareEntriesByName(a, b) == localeCompare(a.name, b.name)

\* the comparator of files.sort
CompareEntries(a, b) ==
    IF a.isTeX /\ ~b.isTeX THEN -1
    ELSE IF ~a.isTeX /\ b.isTeX THEN 1
    ELSE localeCompare(a.name, b.name)

\* insert e before the elements it compares equal to
RECURSIVE InsertSortedUnstable(_, _)
InsertSortedUnstable(sorted, e) ==
    IF sorted = <<>> THEN <<e>>
    ELSE IF CompareEntries(e, sorted[Len(sorted)]) <= 0
         THEN Append(InsertSortedUnstable(SubSeq(sorted, 1, Len(sorted) - 1), e),
                     sorted[Len(sorted)])
         ELSE Append(sorted, e)

\* insert e after the last element it does not sort before
RECURSIVE InsertSorted(_, _)
InsertSorted(sorted, e) ==
    IF sorted = <<>> THEN <<e>>
    ELSE IF CompareEntries(e, sorted[Len(sorted)]) < 0
         THEN Append(InsertSorted(SubSeq(sorted, 1, Len(sorted) - 1), e), sorted[Len(sorted)])
         ELSE Append(sorted, e)

\* Array.prototype.sort: a stable sort
RECURSIVE SortEntries(_)
SortEntries(files) ==
    IF files = <<>> THEN <<>>
    ELSE InsertSorted(SortEntries(SubSeq(files, 1, Len(files) - 1)), files[Len(files)])

(***************************************************************************)
(* Arrays to sort: entries as extractTar builds them, with names that      *)
(* differ in case only, in the first letter, and not at all.               *)
(***************************************************************************)
\* a.tex, B.tex, b.tex, f.png, a.png
SortNames ==
    { <<97, 46, 116, 101, 120>>, <<66, 46, 116, 101, 120>>, <<98, 46, 116, 101, 120>>,
      <<102, 46, 112, 110, 103>>, <<97, 46, 112, 110, 103>> }

\* "hi" and "x": two members of one name differ in their content
SortContents == { <<104, 105>>, <<120>> }

SortPool == { TarFileEntry(n, c) : n \in SortNames, c \in SortContents }

SortInputs == UNION { [1..n -> SortPool] : n \in 0..MaxSort }

(***************************************************************************)
(* The transport's answer and the decompression primitives.                *)
(***************************************************************************)
TarMarkerEprint ==
    <<97, 112, 112, 108, 105, 99, 97, 116, 105, 111, 110, 47, 120, 45, 101, 112,
      114, 105, 110, 116, 45, 116, 97, 114>>
TarMarker == <<97, 112, 112, 108, 105, 99, 97, 116, 105, 111, 110, 47, 120, 45, 116, 97, 114>>
TextMarker == <<116, 101, 120, 116, 47>>
TexMarker == <<97, 112, 112, 108, 105, 99, 97, 116, 105, 111, 110, 47, 120, 45, 116, 101, 120>>

\* content-type headers: absent, text/plain, application/x-tex,
\* application/x-tar, application/x-eprint-tar, application/gzip, and one
\* naming both a tar and a text type ("application/x-tar; text/plain")
ContentTypes ==
    { <<>>,
      TextMarker \o <<112, 108, 97, 105, 110>>,
      TexMarker,
      TarMarker,
      TarMarkerEprint,
      <<97, 112, 112, 108, 105, 99, 97, 116, 105, 111, 110, 47, 103, 122, 105, 112>>,
      TarMarker \o <<59, 32>> \o TextMarker \o <<112, 108, 97, 105, 110>> }

FPng == <<102, 46, 112, 110, 103>>
GzipMagic == <<31, 139, 8>>
ZipMagic == <<80, 75, 5>>

\* a two-member archive: a.tex ("hi") and f.png (one byte)
SmallArchive(magic, trailer) ==
    EncodeTar([kind |-> "wellformed",
               entries |-> <<Member(FPng, 0, <<255>>), Member(ATex, 0, Hi)>>,
               trailer |-> trailer, cut |-> 0, magic |-> magic])

\* an archive whose only header is a directory: no extractable file
DirArchive ==
    EncodeTar([kind |-> "wellformed", entries |-> <<Member(<<100>>, 53, <<>>)>>,
               trailer |-> 2, cut |-> 0, magic |-> TRUE])

Failure == [ok |-> FALSE, out |-> <<>>]
Success(out) == [ok |-> TRUE, out |-> out]

\* what gunzipSync makes of a body that starts with the gzip magic: it
\* throws, or returns text, a ustar archive, an archive without the ustar
\* magic, an archive with no regular file, or 262 bytes ending in "ustar"
GunzipOutcomes ==
    { Failure, Success(Hi), Success(SmallArchive(TRUE, 2)), Success(SmallArchive(FALSE, 2)),
      Success(DirArchive), Success(Zeros(257) \o Ustar) }

\* d/b.bib and A.TEX
DBBib == <<100, 47, 98, 46, 98, 105, 98>>
ATEX == <<65, 46, 84, 69, 88>>

\* what unzipSync makes of a body that starts like a zip file: it throws,
\* or returns no member, or the members f.png and a.tex ("hi"), or a member
\* whose file name has length 0 next to a.tex, or the members d/b.bib,
\* A.TEX (not UTF-8) and a.tex
UnzipOutcomes ==
    { Failure, Success(<<>>),
      Success(<<[name |-> FPng, data |-> <<255>>], [name |-> ATex, data |-> Hi]>>),
      Success(<<[name |-> <<>>, data |-> Hi], [name |-> ATex, data |-> Hi]>>),
      Success(<<[name |-> DBBib, data |-> Hi], [name |-> ATEX, data |-> <<255>>],
                [name |-> ATex, data |-> Hi]>>) }

\* bodies: empty, text, a lone 0x1F, gzip magic, a plain tar archive, a tar
\* archive with no regular file, zip-like bytes, bytes that are not UTF-8
Bodies ==
    { <<>>, Hi, <<31>>, GzipMagic, SmallArchive(TRUE, 2), DirArchive, ZipMagic, <<255, 104>> }

HasGzipMagic(data) == At(data, 0) = 31 /\ At(data, 1) = 139

ContentLengths(body) ==
    { [present |-> FALSE, value |-> 0], [present |-> TRUE, value |-> Len(body)],
      [present |-> TRUE, value |-> 1] }

OkResponsesFor(b) ==
    { [outcome |-> "ok", status |-> 200, statusText |-> "OK", body |-> b,
       contentType |-> ct, contentLength |-> cl, gunzip |-> gz, unzip |-> uz] :
        ct \in ContentTypes, cl \in ContentLengths(b),
        gz \in GunzipOutcomes, uz \in UnzipOutcomes }

OkResponses == UNION { OkResponsesFor(b) : b \in Bodies }

\* the primitives' outcomes belong to the body: only gzip data can be
\* gunzipped, only zip data unzipped, and the declared length is varied on
\* the short bodies
Coherent(r) ==
    /\ r.gunzip.ok => HasGzipMagic(r.body)
    /\ r.unzip.ok => r.body = ZipMagic
    /\ r.contentLength.present /\ r.contentLength.value # Len(r.body) => Len(r.body) < BlockSize

\* answers without a readable body: a non-success status, a response whose
\* body is null, and a request that fails in the network
FailedResponses ==
    { [outcome |-> o[1], status |-> o[2], statusText |-> o[3], body |-> <<>>,
       contentType |-> <<>>, contentLength |-> [present |-> FALSE, value |-> 0],
       gunzip |-> Failure, unzip |-> Failure] :
        o \in { <<"http", 404, "Not Found">>, <<"http", 500, "Internal Server Error">>,
                <<"nobody", 200, "OK">>, <<"network", 0, "">> } }

Responses == { r \in OkResponses : Coherent(r) } \cup FailedResponses

NoResponse == CHOOSE r \in FailedResponses : r.outcome = "network"

\* gunzipSync(data), unzipSync(data): the outcome the transport's body has
gunzipSync(data) == IF data = resp.body THEN resp.gunzip ELSE Failure
unzipSync(data) == IF data = resp.body THEN resp.unzip ELSE Failure

(***************************************************************************)
(* fetchAndExtractTexSource.                                               *)
(***************************************************************************)
Fetches == {1}

ArxivIds == { <<>>, <<50, 51, 48, 49>>, <<97, 47, 49>> }

IdleFetch ==
    [pc |-> "idle", rest |-> <<>>, total |-> 0, chunks |-> <<>>, loaded |-> 0,
     data |-> <<>>, events |-> <<>>, branch |-> <<>>, error |-> <<>>, result |-> <<>>,
     handled |-> FALSE]

InitialProgress == [phase |-> "downloading", loaded |-> 0, total |-> 0, percent |-> 0]

InitialViewer ==
    [files |-> <<>>, selectedFile |-> <<>>, openTabs |-> <<>>, loading |-> TRUE,
     error |-> <<>>, arxivId |-> <<>>, progress |-> InitialProgress]

\* a page that is no arXiv page: the content script is not running
NoPage ==
    [abs |-> FALSE, anchor |-> "none", view |-> 0, pdf |-> 0, ownRecords |-> 0,
     pageRecords |-> 0, started |-> FALSE, mutations |-> 0, inserted |-> 0]

\* showSearch, goToLine (0 for null) and expandedFolders after useState
InitialUi == [showSearch |-> FALSE, goToLine |-> 0, expandedFolders |-> {}]

\* the percentage cut off, not rounded
PercentTruncated(loaded, total) == (100 * loaded) \div total

\* Math.round((loaded / total) * 100)
Percent(loaded, total) == (200 * loaded + total) \div (2 * total)

DownloadingEvent(loaded, total) ==
    [phase |-> "downloading", loaded |-> loaded,
     total |-> IF total # 0 THEN total ELSE loaded,
     percent |-> IF total # 0 THEN Percent(loaded, total) ELSE 0]

\* an 'extracting' event that reports the download's percent
ExtractingEventStale(loaded, total) ==
    [phase |-> "extracting", loaded |-> loaded, total |-> loaded,
     percent |-> IF total # 0 THEN Percent(loaded, total) ELSE 0]

ExtractingEvent(loaded, total) ==
    [phase |-> "extracting", loaded |-> loaded, total |-> loaded, percent |-> 100]

DoneEvent(loaded) ==
    [phase |-> "done", loaded |-> loaded, total |-> loaded, percent |-> 100]

\* data.set(chunk, offset) for every chunk, in order
RECURSIVE Concat(_)
Concat(chunks) == IF chunks = <<>> THEN <<>> ELSE Head(chunks) \o Concat(Tail(chunks))

\* the name without the replacement of '/'
SyntheticNameRaw(id) == id \o DotTex

\* arxivId.replace(/\//g, '_') + '.tex'
SyntheticName(id) == [i \in 1..Len(id) |-> IF id[i] = 47 THEN 95 ELSE id[i]] \o DotTex

SingleFile(id, content) == TextEntry(SyntheticName(id), content, TRUE)

HasTarType(contentType) ==
    Includes(contentType, TarMarkerEprint) \/ Includes(contentType, TarMarker)

HasTextType(contentType) ==
    Includes(contentType, TextMarker) \/ Includes(contentType, TexMarker)

\* the chain with the text test ahead of the tar test
BranchTextFirst(data, contentType) ==
    IF HasGzipMagic(data) THEN "gzip"
    ELSE IF HasTextType(contentType) THEN "text"
    ELSE IF HasTarType(contentType) THEN "tar"
    ELSE "zip"

\* the if / else-if chain over the assembled data and the content type
Branch(data, contentType) ==
    IF HasGzipMagic(data) THEN "gzip"
    ELSE IF HasTarType(contentType) THEN "tar"
    ELSE IF HasTextType(contentType) THEN "text"
    ELSE "zip"

\* the entry pushed for one member of the unzipped container
ZipFileEntry(filename, fileData) ==
    IF isTextFile(filename)
    THEN TextEntry(filename, TextDecode(fileData), EndsWith(filename, DotTex))
    ELSE BinaryEntry(filename, fileData)

\* the gzip branch calling extractTar without isTarArchive
CallsTarUnchecked(data, contentType) ==
    \/ Branch(data, contentType) = "tar"
    \/ Branch(data, contentType) = "gzip" /\ gunzipSync(data).ok

\* the branch taken calls extractTar
CallsTar(data, contentType) ==
    \/ Branch(data, contentType) = "tar"
    \/ /\ Branch(data, contentType) = "gzip"
       /\ gunzipSync(data).ok
       /\ isTarArchive(gunzipSync(data).out)

\* the buffer that branch hands to extractTar
TarInput(data, contentType) ==
    IF Branch(data, contentType) = "gzip" THEN gunzipSync(data).out ELSE data

\* as Files, but a failed primitive leaves the files array empty
FilesNoFallback(id, data, contentType) ==
    LET unzipped == unzipSync(data)
    IN  CASE Branch(data, contentType) = "gzip" ->
               IF gunzipSync(data).ok
               THEN <<SingleFile(id, TextDecode(gunzipSync(data).out))>>
               ELSE <<>>
          [] Branch(data, contentType) = "text" ->
               <<SingleFile(id, TextDecode(data))>>
          [] Branch(data, contentType) = "zip" ->
               IF unzipped.ok
               THEN [i \in 1..Len(unzipped.out) |->
                        ZipFileEntry(unzipped.out[i].name, unzipped.out[i].data)]
               ELSE <<>>

\* the files array of a branch that does not call extractTar
Files(id, data, contentType) ==
    LET unzipped == unzipSync(data)
    IN  CASE Branch(data, contentType) = "gzip" ->
               IF gunzipSync(data).ok
               THEN <<SingleFile(id, TextDecode(gunzipSync(data).out))>>
               ELSE <<SingleFile(id, TextDecode(data))>>
          [] Branch(data, contentType) = "text" ->
               <<SingleFile(id, TextDecode(data))>>
          [] Branch(data, contentType) = "zip" ->
               IF unzipped.ok
               THEN [i \in 1..Len(unzipped.out) |->
                        ZipFileEntry(unzipped.out[i].name, unzipped.out[i].data)]
               ELSE <<SingleFile(id, TextDecode(data))>>

\* the message without the status
HttpErrorBare(status, statusText) == <<"Failed to fetch TeX source:">>

\* `Failed to fetch TeX source: ${response.status} ${response.statusText}`
HttpError(status, statusText) == <<"Failed to fetch TeX source:", status, statusText>>

\* the data parameter of the running extractTar call: what the calling
\* fetch passes, or the generated buffer of a direct call
TarData ==
    IF tarOwner = 0 THEN EncodeTar(src)
    ELSE TarInput(fetch[tarOwner].data, resp.contentType)

\* one evaluation of the loop condition and, if it holds, one loop body
TarStep ==
    /\ tarPc = "loop"
    /\ IF TarProcesses(TarData, tarOffset)
       THEN /\ tarFiles' = TarPush(tarFiles, TarData, tarOffset)
            /\ tarOffset' = TarNextOffset(TarData, tarOffset)
            /\ tarTick' = 1 - tarTick
            /\ tarPc' = tarPc
       ELSE /\ tarPc' = "returned"
            /\ UNCHANGED <<tarFiles, tarOffset, tarTick>>
    /\ UNCHANGED <<arxivId, resp, fetch, viewer, tarOwner, src, sortVars, ui, page>>

\* the chunk lengths reader.read() may deliver next
ChunkSizes(rest, nchunks) ==
    IF nchunks + 1 >= MaxChunks THEN {Len(rest)}
    ELSE {n \in {1, 2, Len(rest)} : n <= Len(rest)}

\* what fetch f tells the viewer: onProgress is setProgress
Emit(f, event) == Append(fetch[f].events, event)

\* the mount effect of the Viewer: reads ?id= and starts the fetch.  The
\* effect returns no cleanup function: when React.StrictMode runs the
\* effect, its cleanup and the effect again, in one commit, the first call
\* of fetchAndExtractTexSource has started, has not got its response yet,
\* and is left running.
Mount(f) ==
    /\ fetch[f].pc = "idle"
    /\ \A g \in DOMAIN fetch : g < f => fetch[g].pc \in {"fetching", "skipped"}
    /\ IF arxivId = <<>>
       THEN /\ viewer' = [viewer EXCEPT !.error = <<"No arXiv ID provided">>,
                                        !.loading = FALSE]
            /\ fetch' = [fetch EXCEPT ![f].pc = "skipped"]
       ELSE /\ viewer' = [viewer EXCEPT !.arxivId = arxivId]
            /\ fetch' = [fetch EXCEPT ![f].pc = "fetching"]
    /\ UNCHANGED <<arxivId, resp, tarVars, src, sortVars, ui, page>>

Reject(f, error) == fetch' = [fetch EXCEPT ![f].pc = "rejected", ![f].error = error]

\* await fetch(sourceUrl) rejects
FetchRejects(f) ==
    /\ fetch[f].pc = "fetching"
    /\ resp.outcome = "network"
    /\ Reject(f, <<"Failed to fetch">>)
    /\ UNCHANGED <<arxivId, resp, viewer, tarVars, src, sortVars, ui, page>>

\* if (!response.ok) throw
ResponseNotOk(f) ==
    /\ fetch[f].pc = "fetching"
    /\ resp.outcome = "http"
    /\ Reject(f, HttpError(resp.status, resp.statusText))
    /\ UNCHANGED <<arxivId, resp, viewer, tarVars, src, sortVars, ui, page>>

\* if (!reader) throw
NoReader(f) ==
    /\ fetch[f].pc = "fetching"
    /\ resp.outcome = "nobody"
    /\ Reject(f, <<"Failed to get response reader">>)
    /\ UNCHANGED <<arxivId, resp, viewer, tarVars, src, sortVars, ui, page>>

\* the response is ok and has a body: total, chunks = [], loaded = 0
StartReading(f) ==
    /\ fetch[f].pc = "fetching"
    /\ resp.outcome = "ok"
    /\ fetch' = [fetch EXCEPT
          ![f].pc = "reading",
          ![f].rest = resp.body,
          ![f].total = IF resp.contentLength.present THEN resp.contentLength.value ELSE 0,
          ![f].chunks = <<>>,
          ![f].loaded = 0]
    /\ UNCHANGED <<arxivId, resp, viewer, tarVars, src, sortVars, ui, page>>

\* reader.read() with one chunks array for all the calls in flight
ReadChunkShared(f) ==
    /\ fetch[f].pc = "reading"
    /\ fetch[f].rest # <<>>
    /\ \E n \in ChunkSizes(fetch[f].rest, Len(fetch[f].chunks)) :
        LET value == SubSeq(fetch[f].rest, 1, n)
            loaded == fetch[f].loaded + Len(value)
            event == DownloadingEvent(loaded, fetch[f].total)
        IN  /\ fetch' = [g \in DOMAIN fetch |->
                  IF g = f
                  THEN [fetch[g] EXCEPT
                          !.rest = SubSeq(fetch[f].rest, n + 1, Len(fetch[f].rest)),
                          !.chunks = Append(fetch[f].chunks, value),
                          !.loaded = loaded,
                          !.events = Emit(f, event)]
                  ELSE [fetch[g] EXCEPT !.chunks = Append(fetch[g].chunks, value)]]
            /\ viewer' = [viewer EXCEPT !.progress = event]
    /\ UNCHANGED <<arxivId, resp, tarVars, src, sortVars, ui, page>>

\* reader.read() resolves with a chunk: push it, count it, report it
ReadChunk(f) ==
    /\ fetch[f].pc = "reading"
    /\ fetch[f].rest # <<>>
    /\ \E n \in ChunkSizes(fetch[f].rest, Len(fetch[f].chunks)) :
        LET value == SubSeq(fetch[f].rest, 1, n)
            loaded == fetch[f].loaded + Len(value)
            event == DownloadingEvent(loaded, fetch[f].total)
        IN  /\ fetch' = [fetch EXCEPT
                  ![f].rest = SubSeq(fetch[f].rest, n + 1, Len(fetch[f].rest)),
                  ![f].chunks = Append(fetch[f].chunks, value),
                  ![f].loaded = loaded,
                  ![f].events = Emit(f, event)]
            /\ viewer' = [viewer EXCEPT !.progress = event]
    /\ UNCHANGED <<arxivId, resp, tarVars, src, sortVars, ui, page>>

\* reader.read() rejects: the stream broke
ReadFails(f) ==
    /\ fetch[f].pc = "reading"
    /\ Reject(f, <<"network error">>)
    /\ UNCHANGED <<arxivId, resp, viewer, tarVars, src, sortVars, ui, page>>

\* files.sort(...), the 'done' event, return files
Finish(f, data, events, branch, files) ==
    /\ fetch' = [fetch EXCEPT
          ![f].pc = "resolved",
          ![f].data = data,
          ![f].branch = branch,
          ![f].events = Append(events, DoneEvent(fetch[f].loaded)),
          ![f].result = SortEntries(files)]
    /\ viewer' = [viewer EXCEPT !.progress = DoneEvent(fetch[f].loaded)]

\* reader.read() resolves with done: assemble the data, report
\* 'extracting', pick the branch and decode; a branch that calls extractTar
\* enters its loop, any other finishes at once
ReadDone(f) ==
    /\ fetch[f].pc = "reading"
    /\ fetch[f].rest = <<>>
    /\ tarPc = "idle"
    /\ LET data == Concat(fetch[f].chunks)
           events == Emit(f, ExtractingEvent(fetch[f].loaded, fetch[f].total))
           branch == Append(fetch[f].branch, Branch(data, resp.contentType))
       IN  IF CallsTar(data, resp.contentType)
           THEN /\ fetch' = [fetch EXCEPT ![f].pc = "extractTar", ![f].data = data,
                                          ![f].branch = branch, ![f].events = events]
                /\ viewer' = [viewer EXCEPT
                      !.progress = ExtractingEvent(fetch[f].loaded, fetch[f].total)]
                /\ tarPc' = "loop"
                /\ tarOffset' = 0
                /\ tarFiles' = <<>>
                /\ tarOwner' = f
                /\ tarTick' = 0
           ELSE /\ Finish(f, data, events, branch, Files(arxivId, data, resp.contentType))
                /\ UNCHANGED tarVars
    /\ UNCHANGED <<arxivId, resp, src, sortVars, ui, page>>

\* extractTar returned to the fetch: files.push(...tarFiles), then the rest
TarReturn(f) ==
    /\ fetch[f].pc = "extractTar"
    /\ tarOwner = f
    /\ tarPc = "returned"
    /\ Finish(f, fetch[f].data, fetch[f].events, fetch[f].branch, tarFiles)
    /\ tarPc' = "idle"
    /\ tarOffset' = 0
    /\ tarFiles' = <<>>
    /\ tarOwner' = 0
    /\ tarTick' = 0
    /\ UNCHANGED <<arxivId, resp, src, sortVars, ui, page>>

\* extractedFiles.find(f => f.isTeX), as a list of at most one entry
FirstTeX(files) ==
    LET tex == {i \in 1..Len(files) : files[i].isTeX}
    IN  IF tex = {} THEN <<>> ELSE <<files[SetMin(tex)]>>

\* .then((extractedFiles) => ...)
OnResolved(f) ==
    /\ fetch[f].pc = "resolved"
    /\ ~fetch[f].handled
    /\ fetch' = [fetch EXCEPT ![f].handled = TRUE]
    /\ viewer' = [viewer EXCEPT
          !.files = fetch[f].result,
          !.selectedFile = IF FirstTeX(fetch[f].result) # <<>>
                           THEN FirstTeX(fetch[f].result) ELSE viewer.selectedFile,
          !.openTabs = IF FirstTeX(fetch[f].result) # <<>>
                       THEN FirstTeX(fetch[f].result) ELSE viewer.openTabs,
          !.loading = FALSE]
    /\ UNCHANGED <<arxivId, resp, tarVars, src, sortVars, ui, page>>

\* the catch handler without setLoading(false)
OnRejectedStillLoading(f) ==
    /\ fetch[f].pc = "rejected"
    /\ ~fetch[f].handled
    /\ fetch' = [fetch EXCEPT ![f].handled = TRUE]
    /\ viewer' = [viewer EXCEPT
          !.error = IF fetch[f].error # <<>> THEN fetch[f].error
                    ELSE <<"Failed to load TeX source">>]
    /\ UNCHANGED <<arxivId, resp, tarVars, src, sortVars, ui, page>>

\* .catch((err) => ...)
OnRejected(f) ==
    /\ fetch[f].pc = "rejected"
    /\ ~fetch[f].handled
    /\ fetch' = [fetch EXCEPT ![f].handled = TRUE]
    /\ viewer' = [viewer EXCEPT
          !.error = IF fetch[f].error # <<>> THEN fetch[f].error
                    ELSE <<"Failed to load TeX source">>,
          !.loading = FALSE]
    /\ UNCHANGED <<arxivId, resp, tarVars, src, sortVars, ui, page>>

Init ==
    /\ arxivId \in ArxivIds
    /\ resp \in Responses
    /\ fetch = [f \in Fetches |-> IdleFetch]
    /\ viewer = InitialViewer
    /\ tarPc = "idle"
    /\ tarOffset = 0
    /\ tarFiles = <<>>
    /\ tarOwner = 0
    /\ tarTick = 0
    /\ src = NoSource
    /\ sortIn = <<>>
    /\ sortOut = <<>>
    /\ sortRuns = 0
    /\ ui = InitialUi
    /\ page = NoPage

Next ==
    \/ \E f \in Fetches :
        \/ Mount(f)
        \/ FetchRejects(f)
        \/ ResponseNotOk(f)
        \/ NoReader(f)
        \/ StartReading(f)
        \/ ReadChunk(f)
        \/ ReadFails(f)
        \/ ReadDone(f)
        \/ TarReturn(f)
        \/ OnResolved(f)
        \/ OnRejected(f)
    \/ TarStep

Spec == Init /\ [][Next]_vars

(***************************************************************************)
(* extractTar called on each of the buffers above.                         *)
(***************************************************************************)
InitTar ==
    /\ src \in TarSources
    /\ tarPc = "loop"
    /\ tarOffset = 0
    /\ tarFiles = <<>>
    /\ tarOwner = 0
    /\ tarTick = 0
    /\ arxivId = <<>>
    /\ resp = NoResponse
    /\ fetch = [f \in Fetches |-> IdleFetch]
    /\ viewer = InitialViewer
    /\ sortIn = <<>>
    /\ sortOut = <<>>
    /\ sortRuns = 0
    /\ ui = InitialUi
    /\ page = NoPage

NextTar == TarStep

SpecTar == InitTar /\ [][NextTar]_vars

(***************************************************************************)
(* The Viewer under React.StrictMode (src/src/viewer/index.tsx): the mount *)
(* effect runs twice, and two calls of fetchAndExtractTexSource are in     *)
(* flight for the same identifier, their steps interleaved.                *)
(***************************************************************************)
StrictFetches == {1, 2}

\* answers for the two calls: short bodies, no declared length
StrictResponses ==
    { r \in Responses :
        \/ r.outcome # "ok"
        \/ /\ r.body \in {Hi, GzipMagic, ZipMagic}
           /\ ~r.contentLength.present
           /\ r.contentType \in {<<>>, TarMarker}
           /\ r.gunzip \in {Failure, Success(SmallArchive(TRUE, 2))}
           /\ r.unzip \in {Failure, Success(<<>>)} }

InitStrict ==
    /\ arxivId \in ArxivIds
    /\ resp \in StrictResponses
    /\ fetch = [f \in StrictFetches |-> IdleFetch]
    /\ viewer = InitialViewer
    /\ tarPc = "idle"
    /\ tarOffset = 0
    /\ tarFiles = <<>>
    /\ tarOwner = 0
    /\ tarTick = 0
    /\ src = NoSource
    /\ sortIn = <<>>
    /\ sortOut = <<>>
    /\ sortRuns = 0
    /\ ui = InitialUi
    /\ page = NoPage

NextStrict ==
    \/ \E f \in StrictFetches :
        \/ Mount(f)
        \/ FetchRejects(f)
        \/ ResponseNotOk(f)
        \/ NoReader(f)
        \/ StartReading(f)
        \/ ReadChunk(f)
        \/ ReadFails(f)
        \/ ReadDone(f)
        \/ TarReturn(f)
        \/ OnResolved(f)
        \/ OnRejected(f)
    \/ TarStep

SpecStrict == InitStrict /\ [][NextStrict]_vars

(***************************************************************************)
(* The Viewer once it shows the files: the file tree built at every        *)
(* render, and the handlers of the tree, the tabs and the search panel.    *)
(***************************************************************************)
\* file.name.split('/')
RECURSIVE SplitPath(_)
SplitPath(name) ==
    LET seps == {i \in 1..Len(name) : name[i] = 47}
    IN  IF seps = {} THEN <<name>>
        ELSE <<SubSeq(name, 1, SetMin(seps) - 1)>>
                 \o SplitPath(SubSeq(name, SetMin(seps) + 1, Len(name)))

\* currentLevel.find(node => node.name === part) finds nothing for item i
FirstWithPart(items, i) == \A j \in 1..(i - 1) : items[j].parts[1] # items[i].parts[1]

\* the nodes of one level, in the order the loop creates them; an item is
\* the rest of a file's path and the file
RECURSIVE TreeLevel(_, _)
TreeLevel(items, prefix) ==
    LET idx == SelectSeq([i \in 1..Len(items) |-> i], LAMBDA i : FirstWithPart(items, i))
        node(k) ==
            LET part == items[k].parts[1]
                isLastPart == Len(items[k].parts) = 1
                below == SelectSeq(items, LAMBDA it : it.parts[1] = part /\ Len(it.parts) > 1)
                path == IF prefix = <<>> THEN part ELSE prefix \o <<47>> \o part
            IN  [name |-> part,
                 path |-> path,
                 isFolder |-> ~isLastPart,
                 children |-> TreeLevel([j \in 1..Len(below) |->
                                            [parts |-> Tail(below[j].parts),
                                             file |-> below[j].file]], path),
                 file |-> IF isLastPart THEN <<items[k].file>> ELSE <<>>]
    IN  [n \in 1..Len(idx) |-> node(idx[n])]

\* a.file?.isTeX || false
NodeIsTeX(n) == n.file # <<>> /\ n.file[1].isTeX

\* the comparator of nodes.sort
CompareNodes(a, b) ==
    IF a.isFolder /\ ~b.isFolder THEN -1
    ELSE IF ~a.isFolder /\ b.isFolder THEN 1
    ELSE IF ~a.isFolder /\ ~b.isFolder /\ NodeIsTeX(a) /\ ~NodeIsTeX(b) THEN -1
    ELSE IF ~a.isFolder /\ ~b.isFolder /\ ~NodeIsTeX(a) /\ NodeIsTeX(b) THEN 1
    ELSE localeCompare(a.name, b.name)

RECURSIVE InsertNode(_, _)
InsertNode(sorted, n) ==
    IF sorted = <<>> THEN <<n>>
    ELSE IF CompareNodes(n, sorted[Len(sorted)]) < 0
         THEN Append(InsertNode(SubSeq(sorted, 1, Len(sorted) - 1), n), sorted[Len(sorted)])
         ELSE Append(sorted, n)

\* nodes.sort(...): a stable sort of one array of nodes
RECURSIVE SortNodeList(_)
SortNodeList(nodes) ==
    IF nodes = <<>> THEN <<>>
    ELSE InsertNode(SortNodeList(SubSeq(nodes, 1, Len(nodes) - 1)), nodes[Len(nodes)])

\* sortNodes: sorts the array, then the children of each of its nodes
RECURSIVE sortNodes(_)
sortNodes(nodes) ==
    LET sorted == SortNodeList(nodes)
    IN  [i \in 1..Len(sorted) |-> [sorted[i] EXCEPT !.children = sortNodes(@)]]

buildFileTree(files) ==
    sortNodes(TreeLevel([i \in 1..Len(files) |->
                            [parts |-> SplitPath(files[i].name), file |-> files[i]]], <<>>))

\* const fileTree = buildFileTree(files)
fileTree == buildFileTree(viewer.files)

\* the nodes FileTreeNode renders: a level, and below each expanded folder
RECURSIVE Rendered(_, _)
Rendered(nodes, expandedFolders) ==
    {nodes[i] : i \in 1..Len(nodes)}
        \cup UNION { IF nodes[i].isFolder /\ nodes[i].path \in expandedFolders
                     THEN Rendered(nodes[i].children, expandedFolders)
                     ELSE {} : i \in 1..Len(nodes) }

\* the lines of a file the search panel can list: content.split('\n')
Lines(content) == 1..(Cardinality({i \in 1..Len(content) : content[i] = 10}) + 1)

\* the Viewer renders the explorer, the tabs and the editor
Shown == ~viewer.loading /\ viewer.error = <<>>

\* a click that selects the file and opens no tab for it
FileClickedNoTab(v, file) == [v EXCEPT !.selectedFile = <<file>>]

\* handleFileClick on the state v
FileClicked(v, file) ==
    [v EXCEPT
        !.selectedFile = <<file>>,
        !.openTabs = IF \E i \in 1..Len(v.openTabs) : v.openTabs[i].name = file.name
                     THEN v.openTabs ELSE Append(v.openTabs, file)]

\* a click on a file of the tree
handleFileClick ==
    /\ Shown /\ ~ui.showSearch
    /\ \E node \in Rendered(fileTree, ui.expandedFolders) :
        /\ ~node.isFolder /\ node.file # <<>>
        /\ viewer' = FileClicked(viewer, node.file[1])
    /\ UNCHANGED <<arxivId, resp, fetch, tarVars, src, sortVars, ui, page>>

\* a click on a folder of the tree
handleToggleFolder ==
    /\ Shown /\ ~ui.showSearch
    /\ \E node \in Rendered(fileTree, ui.expandedFolders) :
        /\ node.isFolder
        /\ ui' = [ui EXCEPT !.expandedFolders =
                      IF node.path \in @ THEN @ \ {node.path} ELSE @ \cup {node.path}]
    /\ UNCHANGED <<arxivId, resp, fetch, viewer, tarVars, src, sortVars, page>>

\* a click on a tab: setSelectedFile(tab)
selectTab ==
    /\ Shown
    /\ \E i \in 1..Len(viewer.openTabs) :
        viewer' = [viewer EXCEPT !.selectedFile = <<viewer.openTabs[i]>>]
    /\ UNCHANGED <<arxivId, resp, fetch, tarVars, src, sortVars, ui, page>>

\* closing a tab that removes the entry from the files list as well
handleCloseTabFromFiles ==
    /\ Shown
    /\ \E i \in 1..Len(viewer.openTabs) :
        LET file == viewer.openTabs[i]
            newTabs == SelectSeq(viewer.openTabs, LAMBDA t : t.name # file.name)
        IN  viewer' = [viewer EXCEPT
                !.files = SelectSeq(viewer.files, LAMBDA t : t.name # file.name),
                !.openTabs = newTabs,
                !.selectedFile =
                    IF viewer.selectedFile # <<>> /\ viewer.selectedFile[1].name = file.name
                    THEN (IF newTabs # <<>> THEN <<newTabs[Len(newTabs)]>> ELSE <<>>)
                    ELSE viewer.selectedFile]
    /\ UNCHANGED <<arxivId, resp, fetch, tarVars, src, sortVars, ui, page>>

\* a click on the close mark of a tab
handleCloseTab ==
    /\ Shown
    /\ \E i \in 1..Len(viewer.openTabs) :
        LET file == viewer.openTabs[i]
            newTabs == SelectSeq(viewer.openTabs, LAMBDA t : t.name # file.name)
        IN  viewer' = [viewer EXCEPT
                !.openTabs = newTabs,
                !.selectedFile =
                    IF viewer.selectedFile # <<>> /\ viewer.selectedFile[1].name = file.name
                    THEN (IF newTabs # <<>> THEN <<newTabs[Len(newTabs)]>> ELSE <<>>)
                    ELSE viewer.selectedFile]
    /\ UNCHANGED <<arxivId, resp, fetch, tarVars, src, sortVars, ui, page>>

\* the activity bar, Ctrl+Shift+F, Escape and the panel's close button
setShowSearch ==
    /\ Shown
    /\ \E show \in BOOLEAN :
        /\ show # ui.showSearch
        /\ ui' = [ui EXCEPT !.showSearch = show]
    /\ UNCHANGED <<arxivId, resp, fetch, viewer, tarVars, src, sortVars, page>>

\* a click on a search result: a line of a text file that holds the query
handleSearchResultClick ==
    /\ Shown /\ ui.showSearch
    /\ \E i \in 1..Len(viewer.files) :
        /\ ~viewer.files[i].isBinary
        /\ \E line \in Lines(viewer.files[i].content) :
            /\ viewer' = FileClicked(viewer, viewer.files[i])
            /\ ui' = [ui EXCEPT !.goToLine = line]
    /\ UNCHANGED <<arxivId, resp, fetch, tarVars, src, sortVars, page>>

\* the effect on goToLine, once the editor is mounted: reveal the line
revealLine ==
    /\ Shown
    /\ ui.goToLine # 0
    /\ viewer.selectedFile # <<>> /\ ~viewer.selectedFile[1].isBinary
    /\ ui' = [ui EXCEPT !.goToLine = 0]
    /\ UNCHANGED <<arxivId, resp, fetch, viewer, tarVars, src, sortVars, page>>

\* answers that lead to a file list: a zip container, a gzipped tar
\* archive; and the answers that lead to none
ViewerResponses ==
    { r \in Responses :
        \/ r.outcome # "ok"
        \/ /\ ~r.contentLength.present
           /\ r.contentType = <<>>
           /\ \/ r.body = ZipMagic /\ r.unzip.ok /\ ~r.gunzip.ok
              \/ r.body = GzipMagic /\ r.gunzip = Success(SmallArchive(TRUE, 2))
                    /\ ~r.unzip.ok }

InitViewer ==
    /\ arxivId \in ArxivIds
    /\ resp \in ViewerResponses
    /\ fetch = [f \in Fetches |-> IdleFetch]
    /\ viewer = InitialViewer
    /\ tarPc = "idle"
    /\ tarOffset = 0
    /\ tarFiles = <<>>
    /\ tarOwner = 0
    /\ tarTick = 0
    /\ src = NoSource
    /\ sortIn = <<>>
    /\ sortOut = <<>>
    /\ sortRuns = 0
    /\ ui = InitialUi
    /\ page = NoPage

NextViewer ==
    \/ Next
    \/ handleFileClick
    \/ handleToggleFolder
    \/ selectTab
    \/ handleCloseTab
    \/ setShowSearch
    \/ handleSearchResultClick
    \/ revealLine

SpecViewer == InitViewer /\ [][NextViewer]_vars

(***************************************************************************)
(* files.sort called on each of the arrays above, and on its own result.   *)
(***************************************************************************)
\* files.sort((a, b) => ...): sorts the array in place
SortFiles ==
    /\ sortRuns < 2
    /\ sortOut' = SortEntries(sortOut)
    /\ sortRuns' = sortRuns + 1
    /\ UNCHANGED <<arxivId, resp, fetch, viewer, tarVars, src, sortIn, ui, page>>

InitSort ==
    /\ sortIn \in SortInputs
    /\ sortOut = sortIn
    /\ sortRuns = 0
    /\ arxivId = <<>>
    /\ resp = NoResponse
    /\ fetch = [f \in Fetches |-> IdleFetch]
    /\ viewer = InitialViewer
    /\ tarPc = "idle"
    /\ tarOffset = 0
    /\ tarFiles = <<>>
    /\ tarOwner = 0
    /\ tarTick = 0
    /\ src = NoSource
    /\ ui = InitialUi
    /\ page = NoPage

NextSort == SortFiles

SpecSort == InitSort /\ [][NextSort]_vars

(***************************************************************************)
(* The content script (src/src/contentScript/index.ts) on an arXiv page.   *)
(* Of the document the script reads: whether the URL is an abstract page   *)
(* (abs), where the buttons can go (anchor), and how many elements match   *)
(* '.arxiv-texplorer-btn' (view) and '.arxiv-texplorer-download-pdf'       *)
(* (pdf).  ownRecords and pageRecords count the childList records with     *)
(* added nodes that wait for the MutationObserver, by who added the nodes. *)
(***************************************************************************)
\* "li": a TeX Source link inside a list item of a list; "bare": a TeX
\* Source link with a parent and no such list item; "fulltext": no TeX
\* Source link, a '.full-text ul' list; "none": neither
Anchors == {"li", "bare", "fulltext", "none"}

\* the two insertions made whatever the document holds already
injectButtonNoCheck(p) ==
    IF ~p.abs THEN p
    ELSE IF p.anchor \in {"li", "fulltext"}
    THEN [p EXCEPT !.view = @ + 1, !.pdf = @ + 1,
                   !.ownRecords = @ + 2, !.inserted = @ + 2]
    ELSE p

\* injectButton() on the document p
injectButton(p) ==
    LET hasViewSource == p.view > 0
        hasDownloadPdf == p.pdf > 0
        viewSourceItem == IF hasViewSource THEN 0 ELSE 1
        downloadPdfItem == IF hasDownloadPdf THEN 0 ELSE 1
    IN  IF ~p.abs THEN p
        ELSE IF hasViewSource /\ hasDownloadPdf THEN p
        ELSE IF p.anchor \in {"li", "bare"}
        THEN IF p.anchor = "li"
             THEN [p EXCEPT !.view = @ + viewSourceItem,
                            !.pdf = @ + downloadPdfItem,
                            !.ownRecords = @ + viewSourceItem + downloadPdfItem,
                            !.inserted = @ + viewSourceItem + downloadPdfItem]
             ELSE p
        ELSE IF p.anchor = "fulltext"
        THEN [p EXCEPT !.view = @ + viewSourceItem,
                       !.pdf = @ + downloadPdfItem,
                       !.ownRecords = @ + viewSourceItem + downloadPdfItem,
                       !.inserted = @ + viewSourceItem + downloadPdfItem]
        ELSE p

\* the observer's loop over n records
RECURSIVE ForEachMutation(_, _)
ForEachMutation(p, n) ==
    IF n = 0 THEN p
    ELSE ForEachMutation(IF p.view = 0 THEN injectButton(p) ELSE p, n - 1)

\* the document is parsed: injectButton runs (at once, or on
\* DOMContentLoaded).  The records of the script's own insertions are
\* delivered in a microtask, before any other task runs.
contentLoaded ==
    /\ ~page.started
    /\ page.ownRecords = 0
    /\ page' = injectButton([page EXCEPT !.started = TRUE])
    /\ UNCHANGED <<arxivId, resp, fetch, viewer, tarVars, src, sortVars, ui>>

\* the MutationObserver callback, called with the records that wait
observerCallback ==
    /\ page.ownRecords + page.pageRecords > 0
    /\ page' = ForEachMutation([page EXCEPT !.ownRecords = 0, !.pageRecords = 0],
                               page.ownRecords + page.pageRecords)
    /\ UNCHANGED <<arxivId, resp, fetch, viewer, tarVars, src, sortVars, ui>>

\* the page changes its document: it may navigate (history API), rebuild
\* the place of the links, remove the elements the script inserted, and add
\* nodes of its own
pageMutation ==
    /\ page.mutations < MaxMutations
    /\ page.ownRecords = 0
    /\ \E abs \in BOOLEAN, anchor \in Anchors, keepView, keepPdf, adds \in {0, 1} :
        page' = [page EXCEPT
            !.abs = abs,
            !.anchor = anchor,
            !.view = @ * keepView,
            !.pdf = @ * keepPdf,
            !.pageRecords = @ + adds,
            !.mutations = @ + 1]
    /\ UNCHANGED <<arxivId, resp, fetch, viewer, tarVars, src, sortVars, ui>>

InitContent ==
    /\ page \in { [NoPage EXCEPT !.abs = abs, !.anchor = anchor] :
                     abs \in BOOLEAN, anchor \in Anchors }
    /\ arxivId = <<>>
    /\ resp = NoResponse
    /\ fetch = [f \in Fetches |-> IdleFetch]
    /\ viewer = InitialViewer
    /\ tarPc = "idle"
    /\ tarOffset = 0
    /\ tarFiles = <<>>
    /\ tarOwner = 0
    /\ tarTick = 0
    /\ src = NoSource
    /\ sortIn = <<>>
    /\ sortOut = <<>>
    /\ sortRuns = 0
    /\ ui = InitialUi

NextContent ==
    \/ contentLoaded
    \/ observerCallback
    \/ pageMutation

SpecContent == InitContent /\ [][NextContent]_vars

(***************************************************************************)
(* Properties.                                                             *)
(***************************************************************************)
\* the entry carries exactly these bytes: as binary data, or as the text
\* whose UTF-8 encoding they are (in the model's alphabet only ASCII bytes
\* are the encoding of a string, each of its own code point)
EntryHolds(e, bytes) ==
    IF e.isBinary THEN e.binaryData = bytes
    ELSE e.content = bytes /\ \A i \in 1..Len(bytes) : bytes[i] < 128

IsRegular(h) == h.type \in {0, 48}

\* the headers of a generated archive that describe a non-empty regular file
RegularMembers(s) == SelectSeq(s.entries, LAMBDA h : IsRegular(h) /\ Len(h.content) > 0)

\* the decoded list is the given members: same number, order, names, content
SameMembers(files, hs) ==
    /\ Len(files) = Len(hs)
    /\ \A i \in 1..Len(hs) :
        /\ files[i].name = hs[i].name
        /\ EntryHolds(files[i], hs[i].content)

\* C6 (as claimed), in the form a finite run refutes: extractTar terminates
\* on every input buffer, so no pass through the loop body ends with the
\* offset and the files it began with (the loop is deterministic: such a
\* pass repeats for ever and extractTar never returns).
C6_ExtractTarTerminates ==
    [][(tarPc = "loop" /\ tarPc' = "loop")
         => <<tarOffset', tarFiles'>> # <<tarOffset, tarFiles>>]_vars

\* C7 (as claimed): a tar buffer encoding N regular files (type flag 0) of
\* any content length, 0 included, decodes to exactly those N entries.
C7_RoundTripAnyLength ==
    (tarPc = "returned" /\ tarOwner = 0 /\ src.kind = "wellformed"
        /\ \A i \in 1..Len(src.entries) : src.entries[i].type = 0)
    => SameMembers(tarFiles, src.entries)

\* a name the header's name field gives back unchanged
NameSurvives(name) == Len(name) <= 100 /\ Trim(StripNul(name)) = name /\ name # <<>>

\* bytes that are valid UTF-8 (in the model's alphabet: ASCII)
ValidText(bytes) == \A i \in 1..Len(bytes) : bytes[i] < 128

RoundTrips(h) ==
    /\ h.type = 0
    /\ Len(h.content) > 0
    /\ NameSurvives(h.name)
    /\ isTextFile(h.name) => ValidText(h.content)

\* C7 (amended): a tar buffer encoding N regular files (type flag 0), each
\* with at least one content byte, a name of at most 100 bytes without NUL or
\* surrounding white space, and valid UTF-8 content when the name has a text
\* extension, decodes to exactly those N entries, in order, with identical
\* names and content.
C7_RoundTripNonEmpty ==
    (tarPc = "returned" /\ tarOwner = 0 /\ src.kind = "wellformed"
        /\ \A i \in 1..Len(src.entries) : RoundTrips(src.entries[i]))
    => SameMembers(tarFiles, src.entries)

C7_Witness ==
    /\ tarPc = "returned" /\ tarOwner = 0 /\ src.kind = "wellformed"
    /\ Len(src.entries) = 2
    /\ \A i \in 1..Len(src.entries) : RoundTrips(src.entries[i])
    /\ Len(src.entries[1].content) > BlockSize
    /\ Len(tarFiles) = 2

\* C8: for a well-formed tar stream the entries emitted are, in order, the
\* headers with type flag 0 or '0' and size > 0; no other header emits one.
C8_CountsRegularFiles ==
    (tarPc = "returned" /\ tarOwner = 0 /\ src.kind = "wellformed")
    => /\ Len(tarFiles) = Len(RegularMembers(src))
       /\ \A i \in 1..Len(tarFiles) :
            tarFiles[i].name = Trim(RegularMembers(src)[i].name)

C8_Witness ==
    /\ tarPc = "returned" /\ tarOwner = 0 /\ src.kind = "wellformed"
    /\ Len(src.entries) = 2
    /\ src.entries[1].type = 120 /\ Len(src.entries[1].content) > 0
    /\ src.entries[2].type = 48
    /\ Len(tarFiles) = 1

Phases(f) == [i \in 1..Len(fetch[f].events) |-> fetch[f].events[i].phase]

Succeeded(f) == fetch[f].pc = "resolved"

\* C1: the progress events of a fetch are 'downloading' events, one per
\* chunk read, then one 'extracting' event with percent 100, then one 'done'
\* event, the last, present when the entry list is returned; no
\* 'downloading' event follows an 'extracting' or 'done' event.
C1_ProgressSequence ==
    \A f \in Fetches :
        LET ev == fetch[f].events
            k == Len(fetch[f].chunks)
        IN  /\ \A i, j \in 1..Len(ev) :
                 (i < j /\ ev[i].phase \in {"extracting", "done"}) => ev[j].phase # "downloading"
            /\ Cardinality({i \in 1..Len(ev) : ev[i].phase = "extracting"}) <= 1
            /\ Cardinality({i \in 1..Len(ev) : ev[i].phase = "done"}) <= 1
            /\ Succeeded(f) =>
                 /\ Len(ev) = k + 2
                 /\ \A i \in 1..k : ev[i].phase = "downloading"
                 /\ ev[k + 1].phase = "extracting" /\ ev[k + 1].percent = 100
                 /\ ev[k + 2].phase = "done"
            /\ ~Succeeded(f) => fetch[f].result = <<>> /\ ~("done" \in {ev[i].phase : i \in 1..Len(ev)})

C1_Witness ==
    /\ Succeeded(1)
    /\ Len(fetch[1].chunks) = 2
    /\ fetch[1].total = 1
    /\ Phases(1) = <<"downloading", "downloading", "extracting", "done">>

C2_WitnessReadFailure ==
    /\ fetch[1].pc = "rejected" /\ fetch[1].handled
    /\ Len(fetch[1].events) = 1

\* the branch the fixed priority order selects
FirstMatch(data, contentType) ==
    CASE At(data, 0) = 31 /\ At(data, 1) = 139 -> "gzip"
      [] ~(At(data, 0) = 31 /\ At(data, 1) = 139)
         /\ (Includes(contentType, TarMarkerEprint) \/ Includes(contentType, TarMarker)) -> "tar"
      [] ~(At(data, 0) = 31 /\ At(data, 1) = 139)
         /\ ~(Includes(contentType, TarMarkerEprint) \/ Includes(contentType, TarMarker))
         /\ (Includes(contentType, TextMarker) \/ Includes(contentType, TexMarker)) -> "text"
      [] OTHER -> "zip"

Decoding(f) == fetch[f].pc \in {"extractTar", "resolved"}

\* C3: every decode takes exactly one branch, the first that matches in the
\* order gzip magic, tar media type, text media type, zip attempt.
C3_FirstMatchWins ==
    \A f \in Fetches :
        /\ Decoding(f) => fetch[f].branch = <<FirstMatch(resp.body, resp.contentType)>>
        /\ ~Decoding(f) => fetch[f].branch = <<>>

C3_Witness ==
    /\ Decoding(1)
    /\ Includes(resp.contentType, TarMarker) /\ Includes(resp.contentType, TextMarker)
    /\ ~HasGzipMagic(resp.body)
    /\ fetch[1].branch = <<"tar">>

C3_WitnessGzip ==
    /\ Decoding(1)
    /\ Includes(resp.contentType, TarMarker)
    /\ HasGzipMagic(resp.body)
    /\ fetch[1].branch = <<"gzip">>

PrimitiveFailed(f) ==
    \/ fetch[f].branch = <<"gzip">> /\ ~resp.gunzip.ok
    \/ fetch[f].branch = <<"zip">> /\ ~resp.unzip.ok

\* C4: when gunzipSync or unzipSync fails the fetch does not fail: it
\* completes with a 'done' event and returns the original bytes decoded as
\* text in a single entry.
C4_DecompressionFailureRecovered ==
    \A f \in Fetches :
        PrimitiveFailed(f) =>
            /\ Succeeded(f)
            /\ fetch[f].events[Len(fetch[f].events)].phase = "done"
            /\ Len(fetch[f].result) = 1
            /\ ~fetch[f].result[1].isBinary
            /\ fetch[f].result[1].content = TextDecode(resp.body)

C4_Witness ==
    /\ fetch[1].branch = <<"gzip">> /\ ~resp.gunzip.ok
    /\ Succeeded(1) /\ fetch[1].handled
    /\ viewer.files = fetch[1].result /\ Len(viewer.files) = 1

C4_WitnessZip ==
    /\ fetch[1].branch = <<"zip">> /\ ~resp.unzip.ok
    /\ resp.body = <<255, 104>>
    /\ Succeeded(1)

\* C5 (as claimed): a fetch that succeeds with at least one byte retrieved
\* returns a non-empty entry list.
C5_SomeEntryWhenBytes ==
    \A f \in Fetches : (Succeeded(f) /\ fetch[f].loaded > 0) => fetch[f].result # <<>>

InExtractTar(f) == tarOwner = f /\ tarPc # "idle"

\* C9 (as claimed): a buffer shorter than 263 bytes never passes
\* isTarArchive and is never handed to extractTar.
C9_ShortNeverDecoded ==
    \A f \in Fetches :
        /\ (resp.gunzip.ok /\ Len(resp.gunzip.out) < 263) => ~isTarArchive(resp.gunzip.out)
        /\ InExtractTar(f) => Len(TarData) >= 263

\* C9 (amended): a buffer shorter than 263 bytes never passes isTarArchive,
\* and on the gzip path it is never handed to extractTar; a payload whose
\* declared media type is tar is handed to extractTar whatever its length.
C9_ShortNeverDecodedAfterGunzip ==
    \A f \in Fetches :
        /\ (resp.gunzip.ok /\ Len(resp.gunzip.out) < 263) => ~isTarArchive(resp.gunzip.out)
        /\ (InExtractTar(f) /\ fetch[f].branch = <<"gzip">>) => Len(TarData) >= 263
        /\ (Decoding(f) /\ fetch[f].branch = <<"gzip">> /\ resp.gunzip.ok
              /\ Len(resp.gunzip.out) < 263 /\ Succeeded(f))
           => fetch[f].result = <<SingleFile(arxivId, TextDecode(resp.gunzip.out))>>

C9_Witness ==
    /\ fetch[1].branch = <<"gzip">> /\ resp.gunzip.ok
    /\ Len(resp.gunzip.out) = 262
    /\ Slice(resp.gunzip.out, 257, 262) = Ustar
    /\ Succeeded(1)

EntryFields(e) == DOMAIN e

\* an entry is text or binary, with the properties of its kind only
WellFormedEntry(e) ==
    /\ e.isBinary => /\ EntryFields(e) = {"name", "content", "isTeX", "isBinary", "binaryData", "mimeType"}
                     /\ e.content = <<>>
    /\ ~e.isBinary => EntryFields(e) = {"name", "content", "isTeX", "isBinary"}
    /\ e.isTeX => ~e.isBinary

AllWellFormed(files) == \A i \in 1..Len(files) : WellFormedEntry(files[i])

\* C10: every entry produced is text or binary and never both: binaryData
\* and mimeType are present iff isBinary, the content of a binary entry is
\* the empty string, and isTeX implies not isBinary.
C10_TextOrBinary ==
    /\ AllWellFormed(tarFiles)
    /\ AllWellFormed(viewer.files)
    /\ \A f \in Fetches : AllWellFormed(fetch[f].result)

C10_Witness ==
    /\ Len(viewer.files) = 2
    /\ viewer.files[1].isTeX /\ ~viewer.files[1].isBinary
    /\ viewer.files[2].isBinary /\ viewer.files[2].mimeType = "image/png"
    /\ fetch[1].branch = <<"zip">>

Sorted == sortRuns >= 1

SameGroup(a, b) == a.isTeX = b.isTeX

\* the entries of the array that bear the given name, in the array's order
Named(files, name) == SelectSeq(files, LAMBDA e : e.name = name)

\* entries of one name keep the order the input had them in
KeepsInputOrder ==
    \A n \in SortNames : Named(sortOut, n) = Named(sortIn, n)

\* C12: in the sorted list every entry with isTeX = true comes before every
\* entry with isTeX = false, whatever the entries are.
C12_TeXFirst ==
    Sorted =>
        /\ Len(sortOut) = Len(sortIn)
        /\ \A i, j \in 1..Len(sortOut) : (i < j /\ sortOut[j].isTeX) => sortOut[i].isTeX

C12_Witness ==
    /\ sortRuns = 1
    /\ Len(sortIn) = 3
    /\ ~sortIn[1].isTeX /\ sortIn[2].isTeX /\ sortIn[3].isTeX
    /\ sortOut[1].isTeX /\ sortOut[2].isTeX /\ ~sortOut[3].isTeX

\* comparison of two strings by their code units: -1, 0 or 1
CodeUnitCompare(a, b) == CompareKeys(a, b)

\* C13 (as claimed): within the isTeX group and within the other group the
\* sorted list is in case-sensitive lexicographic (code unit) order of the
\* names, an upper-case letter before its lower-case form, and entries that
\* compare equal keep their input order.
C13_CodeUnitOrderInGroups ==
    Sorted =>
        /\ \A i, j \in 1..Len(sortOut) :
             (i < j /\ SameGroup(sortOut[i], sortOut[j]))
                => CodeUnitCompare(sortOut[i].name, sortOut[j].name) <= 0
        /\ KeepsInputOrder

\* a before b in dictionary order: letters compared without regard to case
\* first, '.' before any letter, and on a tie the lower-case form first
Dictionary(a, b) ==
    LET la == ToLowerCase(a)
        lb == ToLowerCase(b)
    IN  IF la # lb THEN CompareKeys(PrimaryKey(la), PrimaryKey(lb)) < 0
        ELSE CompareKeys(a, b) >= 0

\* C13 (amended): within the isTeX group and within the other group the
\* sorted list is in the order of String.prototype.localeCompare on the
\* names, which under the root collation is dictionary order (letters
\* compared without regard to case, then a lower-case letter before its
\* upper-case form), and entries that compare equal keep their input order.
C13_LocaleOrderInGroups ==
    Sorted =>
        /\ \A i, j \in 1..Len(sortOut) :
             (i < j /\ SameGroup(sortOut[i], sortOut[j]))
                => Dictionary(sortOut[i].name, sortOut[j].name)
        /\ KeepsInputOrder

C13_Witness ==
    /\ sortRuns = 1
    /\ Len(sortIn) = 3
    /\ <<sortIn[1].name, sortIn[2].name, sortIn[3].name>>
         = << <<66, 46, 116, 101, 120>>, <<98, 46, 116, 101, 120>>, <<98, 46, 116, 101, 120>> >>
    /\ sortIn[2].content # sortIn[3].content
    /\ sortOut = <<sortIn[2], sortIn[3], sortIn[1]>>

\* C14: sorting a list that files.sort has already sorted leaves it as it
\* is, whatever the entries are.
C14_SortIdempotent ==
    [][(sortRuns >= 1 /\ sortRuns' = sortRuns + 1) => sortOut' = sortOut]_vars

C14_Witness ==
    /\ sortRuns = 2
    /\ Len(sortIn) = 3
    /\ sortOut # sortIn
    /\ sortIn[1].name = sortIn[3].name /\ sortIn[1].content # sortIn[3].content
    /\ sortIn[2].name # sortIn[1].name

\* C11 (as claimed): no entry that fetchAndExtractTexSource returns has an
\* empty name, whether extractTar, the zip container or the synthetic single
\* file produced it.
C11_NoEmptyName ==
    \A f \in DOMAIN fetch :
        \A i \in 1..Len(fetch[f].result) : fetch[f].result[i].name # <<>>

Tex == <<116, 101, 120>>

\* C15 (as claimed): an entry decoded from a container has isTeX = true iff
\* its extension, taken as isTextFile takes it (the part after the last '.',
\* in lower case), is 'tex'.
C15_IsTeXIffTexExtension ==
    \A i \in 1..Len(tarFiles) :
        tarFiles[i].isTeX <=> (Extension(tarFiles[i].name) = Tex)

\* C16 (as claimed): a member with a text extension whose bytes are not
\* valid UTF-8 is emitted as a binary entry (isBinary, not isTeX, binaryData
\* the raw bytes, mimeType set), not as text.
C16_InvalidTextBecomesBinary ==
    (tarPc = "returned" /\ tarOwner = 0 /\ src.kind = "wellformed"
        /\ Len(tarFiles) = Len(RegularMembers(src)))
    => \A i \in 1..Len(tarFiles) :
         LET h == RegularMembers(src)[i]
         IN  (isTextFile(h.name) /\ ~ValidText(h.content))
                => /\ tarFiles[i].isBinary
                   /\ ~tarFiles[i].isTeX
                   /\ "binaryData" \in DOMAIN tarFiles[i]
                   /\ "mimeType" \in DOMAIN tarFiles[i]

\* no container was decoded: gunzipSync failed or gave something that is
\* not a tar archive, the media type is text, or unzipSync failed
NoContainer(f) ==
    \/ fetch[f].branch = <<"gzip">> /\ ~(resp.gunzip.ok /\ isTarArchive(resp.gunzip.out))
    \/ fetch[f].branch = <<"text">>
    \/ fetch[f].branch = <<"zip">> /\ ~resp.unzip.ok

\* name is id with every '/' replaced by '_', followed by '.tex'
IsSanitized(name, id) ==
    /\ Len(name) = Len(id) + 4
    /\ \A i \in 1..Len(id) : name[i] = (IF id[i] = 47 THEN 95 ELSE id[i])
    /\ SubSeq(name, Len(id) + 1, Len(id) + 4) = <<46, 116, 101, 120>>

\* C17: when no container format is decoded the result is exactly one
\* entry, a text entry with isTeX = true, named the identifier with every
\* '/' replaced by '_' followed by '.tex'.
C17_SyntheticSingleFile ==
    \A f \in DOMAIN fetch :
        (Succeeded(f) /\ NoContainer(f)) =>
            /\ Len(fetch[f].result) = 1
            /\ ~fetch[f].result[1].isBinary
            /\ fetch[f].result[1].isTeX
            /\ IsSanitized(fetch[f].result[1].name, arxivId)

C17_Witness ==
    /\ Succeeded(1) /\ fetch[1].handled
    /\ fetch[1].branch = <<"text">>
    /\ arxivId = <<97, 47, 49>>
    /\ Len(viewer.files) = 1
    /\ viewer.files[1].name = <<97, 95, 49, 46, 116, 101, 120>>
    /\ viewer.selectedFile = viewer.files

C17_WitnessGzip ==
    /\ Succeeded(1)
    /\ fetch[1].branch = <<"gzip">> /\ resp.gunzip.ok /\ ~isTarArchive(resp.gunzip.out)
    /\ arxivId = <<97, 47, 49>>

\* the effect run that started fetch f was torn down: a later run exists
Abandoned(f) == \E g \in DOMAIN fetch : g > f /\ fetch[g].pc # "idle"

\* the viewer's files list is empty or the whole sorted list of some call
FilesWhole ==
    \/ viewer.files = <<>>
    \/ \E g \in DOMAIN fetch :
        /\ Succeeded(g) /\ fetch[g].handled
        /\ viewer.files = fetch[g].result
        /\ viewer.files = SortEntries(viewer.files)

\* C18 (as claimed): once the effect run that started a fetch is torn down
\* the fetch is cancelled: it reads no chunk, publishes no progress event and
\* hands no entry list to the viewer; and the viewer's files list is at every
\* moment empty or a complete sorted entry list.
C18_AbandonedFetchCancelled ==
    /\ \A f \in DOMAIN fetch :
        Abandoned(f) =>
            /\ fetch[f].pc \in {"fetching", "skipped", "rejected"}
            /\ fetch[f].events = <<>>
            /\ ~(Succeeded(f) /\ fetch[f].handled)
    /\ FilesWhole

\* C19: with two calls in flight, their chunks arriving in any interleaving,
\* each call's chunks are a prefix of the body its own stream delivers, in
\* arrival order, its loaded count is their total length, and the buffer it
\* assembles is their concatenation.
C19_ChunksOwnedByFetch ==
    \A f \in DOMAIN fetch :
        /\ fetch[f].pc = "reading" =>
             /\ Concat(fetch[f].chunks) \o fetch[f].rest = resp.body
             /\ fetch[f].loaded = Len(Concat(fetch[f].chunks))
        /\ Decoding(f) =>
             /\ fetch[f].data = Concat(fetch[f].chunks)
             /\ fetch[f].data = resp.body
             /\ fetch[f].loaded = Len(resp.body)
             /\ \A i \in 1..Len(fetch[f].chunks) :
                  /\ fetch[f].events[i].phase = "downloading"
                  /\ fetch[f].events[i].loaded
                       = Len(Concat(SubSeq(fetch[f].chunks, 1, i)))

C19_Witness ==
    /\ fetch[1].pc = "reading"
    /\ Len(fetch[1].chunks) = 1 /\ Len(fetch[1].chunks[1]) = 1
    /\ Succeeded(2)
    /\ Len(fetch[2].chunks) = 2 /\ Len(fetch[2].chunks[1]) = 2
    /\ fetch[2].data = resp.body

\* the call of the mount effect has handed its entry list to the viewer
Handed == \E f \in DOMAIN fetch : Succeeded(f) /\ fetch[f].handled

Entries(files) == {files[i] : i \in 1..Len(files)}

\* the files the nodes of a tree refer to
RECURSIVE TreeFiles(_)
TreeFiles(nodes) ==
    UNION { Entries(nodes[i].file) \cup TreeFiles(nodes[i].children) : i \in 1..Len(nodes) }

\* C20: once the entry list is handed to the viewer, no viewer operation
\* changes the files list or a field of an entry in it: after every step the
\* list is what it was, and the selected file, the open tabs and the files of
\* the tree's nodes are entries of that list.
C20_EntriesNeverChange ==
    [][Handed =>
         /\ viewer'.files = viewer.files
         /\ Entries(viewer'.selectedFile) \subseteq Entries(viewer.files)
         /\ Entries(viewer'.openTabs) \subseteq Entries(viewer.files)
         /\ TreeFiles(buildFileTree(viewer'.files)) \subseteq Entries(viewer.files)]_vars

C20_Witness ==
    /\ Handed
    /\ Len(viewer.files) = 3
    /\ Len(viewer.openTabs) = 2
    /\ viewer.selectedFile # <<>> /\ viewer.selectedFile[1].name = <<100, 47, 98, 46, 98, 105, 98>>
    /\ ~(\E i \in 1..Len(viewer.openTabs) : viewer.openTabs[i].isTeX)
    /\ ui.expandedFolders = {<<100>>}
    /\ ui.showSearch /\ ui.goToLine = 1

\* p is x / y * 100 rounded to the nearest integer, a half rounded up
IsRounded(p, x, y) ==
    /\ 2 * p * y <= 200 * x + y
    /\ 200 * x + y < 2 * (p + 1) * y

\* the events of fetch f that report a chunk
ChunkEvents(f) ==
    SelectSeq(fetch[f].events, LAMBDA e : e.phase = "downloading")

\* C21: the 'downloading' event of each chunk read carries loaded = the sum
\* of the lengths of the chunks received so far, total = the declared content
\* length, or loaded when none is declared, and percent =
\* round(loaded / total * 100), or 0 when no length is declared; loaded never
\* decreases from one event of a fetch to the next.
C21_DownloadingEventFields ==
    \A f \in DOMAIN fetch :
        /\ Len(ChunkEvents(f)) = Len(fetch[f].chunks)
        /\ \A i \in 1..Len(ChunkEvents(f)) :
             LET e == ChunkEvents(f)[i]
             IN  /\ e.loaded = Len(Concat(SubSeq(fetch[f].chunks, 1, i)))
                 /\ resp.contentLength.present =>
                      /\ e.total = resp.contentLength.value
                      /\ IsRounded(e.percent, e.loaded, resp.contentLength.value)
                 /\ ~resp.contentLength.present =>
                      /\ e.total = e.loaded
                      /\ e.percent = 0
        /\ \A i, j \in 1..Len(fetch[f].events) :
             i < j => fetch[f].events[i].loaded <= fetch[f].events[j].loaded

C21_Witness ==
    /\ resp.contentLength.present /\ resp.contentLength.value = 3
    /\ Len(fetch[1].chunks) = 2
    /\ Len(fetch[1].events) = 4
    /\ fetch[1].events[1].percent = 67
    /\ fetch[1].events[2].percent = 100

C21_WitnessNoLength ==
    /\ ~resp.contentLength.present
    /\ Len(fetch[1].chunks) = 2
    /\ fetch[1].events[2].total = 3 /\ fetch[1].events[2].percent = 0

\* C27 (as claimed): every progress event has 0 <= percent <= 100 and
\* loaded <= total, whatever the declared content length and the chunk sizes
\* are, a declared length below the number of bytes received included.
C27_PercentWithinBounds ==
    \A f \in DOMAIN fetch :
        \A i \in 1..Len(fetch[f].events) :
            /\ fetch[f].events[i].percent >= 0
            /\ fetch[f].events[i].percent <= 100
            /\ fetch[f].events[i].loaded <= fetch[f].events[i].total

\* a pass through the body of the extractTar loop
TarPass == tarPc = "loop" /\ tarPc' = "loop" /\ tarTick' # tarTick

\* the number of 512-byte blocks that hold size bytes
BlocksFor(size) == CHOOSE k \in -16..16 : k * 512 >= size /\ (k - 1) * 512 < size

\* C22: processing a header at offset o with decoded size s moves the scan
\* offset to o + 512 + ceil(s / 512) * 512, whether the header emitted an
\* entry or was skipped.
C22_AdvancePastContent ==
    [][TarPass =>
         tarOffset' = tarOffset + 512 + BlocksFor(TarHeaderSize(TarData, tarOffset)) * 512]_vars

C22_Witness ==
    /\ tarPc = "returned" /\ tarOwner = 0 /\ src.kind = "wellformed"
    /\ Len(src.entries) = 2 /\ src.trailer = 2
    /\ src.entries[1].type = 120 /\ Len(src.entries[1].content) = 2
    /\ src.entries[2].type = 0 /\ Len(src.entries[2].content) = 513
    /\ Len(tarFiles) = 1
    /\ tarOffset = 2560

\* the size field begins with an octal digit
StartsOctal(field) == field # <<>> /\ field[1] >= 48 /\ field[1] <= 55

NonOctalReturned == tarPc = "returned" /\ tarOwner = 0 /\ src.kind = "nonoctal"

Remaining == Len(TarData) - tarOffset

\* C24 (as claimed): extractTar parses the header at the scan offset
\* whenever at least 512 bytes remain there (and its name is not empty), and
\* stops for exhaustion only when fewer than 512 bytes remain.
C24_ParsesWhileBlockRemains ==
    [][(tarPc = "loop" /\ tarOwner = 0 /\ tarPc' # tarPc) =>
          (Remaining < 512 \/ TarHeaderName(TarData, tarOffset) = <<>>)]_vars

\* C24 (amended): extractTar parses the header at the scan offset whenever
\* more than 512 bytes remain there (and its name is not empty), and stops
\* for exhaustion when 512 bytes or fewer remain: a header that fills the
\* last 512 bytes of the buffer is not parsed.
C24_ParsesWhileMoreThanBlockRemains ==
    [][(tarPc = "loop" /\ tarOwner = 0) =>
          /\ tarPc' # tarPc =>
               (Remaining <= 512 \/ TarHeaderName(TarData, tarOffset) = <<>>)
          /\ (Remaining > 512 /\ TarHeaderName(TarData, tarOffset) # <<>>) =>
               (tarPc' = "loop")
          /\ Remaining <= 512 => tarTick' = tarTick]_vars

C24_Witness ==
    /\ tarPc = "returned" /\ tarOwner = 0
    /\ Remaining = 512
    /\ TarHeaderName(TarData, tarOffset) # <<>>
    /\ tarOffset > 0

\* the first header of the archive whose name is empty or blank
FirstGap(s) == SetMin({i \in 1..Len(s.entries) : Trim(StripNul(s.entries[i].name)) = <<>>})

\* C25: extractTar stops at the first header whose name decodes to an
\* empty string: the entries emitted are those of the headers before it, and
\* none of a header at or after it, well-formed headers that follow included.
C25_StopsAtFirstEmptyName ==
    (tarOwner = 0 /\ src.kind = "gap") =>
        /\ Len(tarFiles) < FirstGap(src)
        /\ \A i \in 1..Len(tarFiles) : tarFiles[i].name = src.entries[i].name
        /\ tarPc = "returned" =>
             /\ Len(tarFiles) = FirstGap(src) - 1
             /\ tarOffset = 1024

C25_Witness ==
    /\ tarPc = "returned" /\ tarOwner = 0 /\ src.kind = "gap"
    /\ src.entries[2].name = <<32, 32>>
    /\ src.entries[3].name = <<98, 46, 98, 105, 98>>
    /\ Len(tarFiles) = 1

\* C26 (as claimed): on any input buffer the scan offset of extractTar is a
\* non-negative multiple of 512 and grows with every header processed.
C26_OffsetGrowsInBlocks ==
    [][TarPass =>
         /\ tarOffset' > tarOffset
         /\ tarOffset' >= 0
         /\ tarOffset' % 512 = 0]_vars

TabNames(tabs) == {tabs[i].name : i \in 1..Len(tabs)}

\* the selected file is null or bears the name of an open tab
SelectedIsOpen(v) ==
    v.selectedFile = <<>> \/ v.selectedFile[1].name \in TabNames(v.openTabs)

\* the step closes the tab of the selected file
ClosesSelected ==
    /\ viewer.selectedFile # <<>>
    /\ viewer.selectedFile[1].name \in TabNames(viewer.openTabs)
    /\ viewer.selectedFile[1].name \notin TabNames(viewer'.openTabs)
    /\ viewer'.files = viewer.files

\* C28: after any sequence of file clicks, tab selections, tab closes and
\* search-result clicks the selected file is null or has the name of a tab in
\* openTabs; and closing the selected tab selects the last tab that remains,
\* or null when none remains.
C28_SelectedFileIsOpenTab ==
    [][/\ SelectedIsOpen(viewer')
       /\ ClosesSelected =>
            viewer'.selectedFile =
                (IF viewer'.openTabs = <<>> THEN <<>>
                 ELSE <<viewer'.openTabs[Len(viewer'.openTabs)]>>)]_vars

C28_Witness ==
    /\ Handed
    /\ Len(viewer.files) = 3
    /\ Len(viewer.openTabs) = 2
    /\ ~viewer.openTabs[1].isTeX /\ ~viewer.openTabs[2].isTeX
    /\ viewer.selectedFile = <<viewer.openTabs[2]>>
    /\ ui.goToLine = 1

C28_WitnessNoTab ==
    /\ Handed
    /\ \E i \in 1..Len(viewer.files) : viewer.files[i].isTeX
    /\ viewer.openTabs = <<>>
    /\ viewer.selectedFile = <<>>

\* the effect run of call f has set loading to false
Settled(f) == fetch[f].handled \/ fetch[f].pc = "skipped"

Failed(f) == fetch[f].pc = "rejected" /\ fetch[f].handled

Delivered(f) == fetch[f].pc = "resolved" /\ fetch[f].handled

\* loading holds until a call settles or the id is found missing; with an
\* empty id no fetch is started and the error is 'No arXiv ID provided'
LoadingUntilSettled ==
    /\ viewer.loading <=> (\A f \in DOMAIN fetch : ~Settled(f))
    /\ (\A f \in DOMAIN fetch : fetch[f].pc = "idle") => viewer = InitialViewer
    /\ arxivId = <<>> =>
         /\ \A f \in DOMAIN fetch : fetch[f].pc \in {"idle", "skipped"}
         /\ (\E f \in DOMAIN fetch : fetch[f].pc = "skipped")
              => viewer.error = <<"No arXiv ID provided">>
         /\ viewer.files = <<>>

\* a call that succeeded has set files, and its first isTeX entry, if it
\* has one, is the selected file and the only open tab
DeliveredShown(f) ==
    /\ viewer.files = fetch[f].result
    /\ FirstTeX(fetch[f].result) # <<>> =>
         /\ viewer.selectedFile = FirstTeX(fetch[f].result)
         /\ viewer.openTabs = FirstTeX(fetch[f].result)

C29_WitnessBothDelivered ==
    /\ Delivered(1) /\ Delivered(2)
    /\ viewer.error = <<>>
    /\ Len(viewer.files) = 2

\* a call of the observer with no record but those of the script's own
\* insertions
CallbackOnOwnRecords ==
    /\ page.pageRecords = 0
    /\ page.ownRecords > 0
    /\ page'.started = page.started
    /\ page'.mutations = page.mutations
    /\ page' # page

\* C30: after any sequence of changes of the document and calls of
\* injectButton (the initial one and those of the MutationObserver) the page
\* holds at most one 'View TeX Source' button and at most one 'Download PDF'
\* link of the extension; and the observer, called for the extension's own
\* insertions, inserts nothing more, so that no chain of insertions follows:
\* the script inserts at most two elements at load and two for each change
\* the page makes.
C30_AtMostOneButton ==
    [][/\ page'.view <= 1
       /\ page'.pdf <= 1
       /\ page'.inserted <= 2 * (page'.mutations + 1)
       /\ CallbackOnOwnRecords =>
            /\ page'.view = page.view
            /\ page'.pdf = page.pdf
            /\ page'.inserted = page.inserted
            /\ page'.ownRecords = 0]_vars

C30_Witness ==
    /\ page.started
    /\ page.view = 1 /\ page.pdf = 1
    /\ page.inserted = 5
    /\ page.ownRecords = 0 /\ page.pageRecords = 0
    /\ page.mutations = 3

====
